---- MODULE Spec2Model ----
(***************************************************************************)
(* Model of repocontext: the Selector (internal/llm), the Documentation    *)
(* Cache/Generator (internal/docs), the Binary Classifier and the          *)
(* Repository Scanner (internal/git).  Each component has its own          *)
(* specification; the variables of the other components stay idle.         *)
(***************************************************************************)
EXTENDS Integers, Sequences, FiniteSets, TLC

\* ------------------------------------------------------------------ bounds
MaxFileSize == 3     \* file sizes range over 0..MaxFileSize
MaxBudget == 4       \* budgets range over -1..MaxBudget
MaxCompletion == 4   \* a model response has at most this many characters
MaxRuns == 3         \* number of runs of the tool on one docs directory
MaxInvocations == 2  \* CleanupDuplicates invocations on one Generator
MaxSample == 3       \* a classified file has at most this many bytes
QueueCap == 2        \* capacity of fileListQueue (100 in git.go 171, scaled)
MaxArg == 3          \* the command-line argument has at most this many characters
MaxPathRuns == 2     \* number of runs whose directories are followed

\* ------------------------------------------------------- Selector: state
VARIABLES
    files,          \* SelectFiles: the catalog, path -> size
    maxSize,        \* SelectFiles: the budget (config.MaxContextSize)
    selPc,          \* SelectFiles: position in the function
    completion,     \* SelectFiles: text returned by the model
    lineIdx,        \* SelectFiles: index of the next response line
    selectedFiles,  \* SelectFiles: accepted paths, in order
    selectedSize,   \* SelectFiles: running total
    selRet,         \* SelectFiles: the returned (paths, size, err)
    selCalls        \* number of text-generation calls SelectFiles issued

selVars == <<files, maxSize, selPc, completion, lineIdx, selectedFiles,
             selectedSize, selRet, selCalls>>

\* ------------------------------------------- Documentation: state
VARIABLES
    secFile,    \* disk: the three section files, name -> content
    fullFile,   \* disk: full.md
    metaFile,   \* disk: metadata.json
    gMeta,      \* Generator.Meta
    metaArg,    \* the meta argument main passes to LoadOrGenerateDocs
    docPc,      \* position of the run in LoadOrGenerateDocs / CleanupDuplicates
    secIdx,     \* generateDocs: index of the section being generated
    pending,    \* text returned by the model, or content read, not yet written
    path,       \* which way LoadOrGenerateDocs went: "none", "hit", "cold"
    runLog,     \* model calls and file writes of the current run, in order
    lastOp,     \* the last file or model operation and whether it succeeded
    runNo,      \* number of runs started
    invocations \* CleanupDuplicates invocations in the current run

docVars == <<secFile, fullFile, metaFile, gMeta, metaArg, docPc, secIdx,
             pending, path, runLog, lastOp, runNo, invocations>>

disk == <<secFile, fullFile, metaFile>>

OverviewFileName == "01_overview.md"
GettingStartedFileName == "02_getting_started.md"
UsageFileName == "03_usage.md"
FullDocFileName == "full.md"
MetadataFileName == "metadata.json"

\* docs.go 109 and 144: the fixed section order
Sections == <<OverviewFileName, GettingStartedFileName, UsageFileName>>

ModelName == "claude-3-5-sonnet-20240620"

\* what the model may answer
Texts == {[kind |-> "text", text |-> "t1"], [kind |-> "text", text |-> "t2"]}
Commits == {"h1", "h2"}     \* commit hashes a run may see
Missing == [kind |-> "missing"]   \* the file does not exist
Partial == [kind |-> "partial"]   \* the file was cut short by a failed write
NoMeta == [kind |-> "nil"]        \* Generator.Meta not set
Nothing == [kind |-> "none"]      \* no text held

NoOp == [op |-> "none", target |-> "none", ok |-> "ok"]
Op(o, t, k) == [op |-> o, target |-> t, ok |-> k]

\* json.MarshalIndent of a Metadata value (docs.go 17-23, 317)
Marshal(m) ==
    [commit_hash |-> m.CommitHash, model_used |-> m.ModelUsed,
     deduplicated |-> m.Deduplicated]

\* does json.Unmarshal accept the bytes of the file
Parses(data) == data \notin {Missing, Partial}

\* json.Unmarshal into a Metadata value (docs.go 86-89)
Unmarshal(data) ==
    [CommitHash |-> data.commit_hash, ModelUsed |-> data.model_used,
     Deduplicated |-> data.deduplicated]

\* what a failed os.WriteFile may leave: the old file, or a file cut short
WriteFailOutcomes(old) == {old, Partial}

\* variant of ConcatSections: the sections are taken in map order, not list order
ConcatSections_Unordered(sf) ==
    [kind |-> "concat",
     parts |-> <<sf[UsageFileName], sf[OverviewFileName], sf[GettingStartedFileName]>>]

\* docs.go 141-152: the three section files in order, each followed by "\n\n"
ConcatSections(sf) ==
    [kind |-> "concat", parts |-> [i \in 1..Len(Sections) |-> sf[Sections[i]]]]

\* ------------------------------------------- Binary Classifier: state
VARIABLES
    binInput,   \* isBinaryFile: the file at path (its bytes, or why it fails)
    binOut      \* isBinaryFile: what the call returned and what it computed

binVars == <<binInput, binOut>>

\* ------------------------------------------- Repository Scanner: state
VARIABLES
    tree,       \* the entries under r.Path the walker has yet to visit
    queue,      \* fileListQueue: locations sent and not yet received
    closed,     \* fileListQueue has been closed by the walker
    walkFailed, \* the walker could not walk the tree
    catalog,    \* GetFiles: the files map being built
    received,   \* the entries GetFiles has taken from the queue
    scanRet     \* GetFiles: the returned (files, err), or "pending"

scanVars == <<tree, queue, closed, walkFailed, catalog, received, scanRet>>

\* ------------------------------------------- Directories of a run: state
VARIABLES
    repo,       \* the Repository of the current run (User, Repo, Tag, Path)
    docsPath,   \* Generator.DocsPath of the current run
    pathPc,     \* position of the run: "idle", "parsed", "cloned", "ready"
    metaStore,  \* the docs directories holding a metadata file, and who wrote it
    dirLog,     \* the docs directory each repository was given so far
    hitFrom,    \* the writer of the metadata the current run took as a cache hit
    pathRuns    \* number of runs started

pathVars == <<repo, docsPath, pathPc, metaStore, dirLog, hitFrom, pathRuns>>

vars == <<selVars, docVars, binVars, scanVars, pathVars>>

Range(s) == {s[i] : i \in 1..Len(s)}

\* Characters and strings: a string is a sequence of one-character strings.
Chars == {"a", "c", " ", "(", "\n"}
PathUniverse == {<<"a">>, <<"c">>}

RECURSIVE StringsUpTo(_)
StringsUpTo(n) ==
    IF n = 0 THEN {<<>>}
    ELSE LET S == StringsUpTo(n - 1)
         IN  S \cup {Append(s, ch) : s \in {t \in S : Len(t) = n - 1}, ch \in Chars}

Completions == StringsUpTo(MaxCompletion)

Catalogs ==
    UNION {[D -> 0..MaxFileSize] : D \in SUBSET PathUniverse}

Budgets == (0..MaxBudget) \cup {-1}

\* ---------------------------------------------------- Selector: helpers
RECURSIVE SumSizes(_, _)
SumSizes(f, D) ==
    IF D = {} THEN 0
    ELSE LET p == CHOOSE x \in D : TRUE
         IN  f[p] + SumSizes(f, D \ {p})

getTotalSize(f) == SumSizes(f, DOMAIN f)

RECURSIVE SplitAcc(_, _, _, _)
SplitAcc(s, sep, cur, acc) ==
    IF s = <<>> THEN Append(acc, cur)
    ELSE IF Head(s) = sep
         THEN SplitAcc(Tail(s), sep, <<>>, Append(acc, cur))
         ELSE SplitAcc(Tail(s), sep, Append(cur, Head(s)), acc)

\* strings.Split(s, sep) for a one-character separator
Split(s, sep) == SplitAcc(s, sep, <<>>, <<>>)

IsSpace(ch) == ch \in {" ", "\t", "\n", "\r", "\f"}

RECURSIVE TrimLeft(_)
TrimLeft(s) ==
    IF s # <<>> /\ IsSpace(Head(s)) THEN TrimLeft(Tail(s)) ELSE s

RECURSIVE TrimRight(_)
TrimRight(s) ==
    IF s # <<>> /\ IsSpace(s[Len(s)])
    THEN TrimRight(SubSeq(s, 1, Len(s) - 1))
    ELSE s

\* strings.TrimSpace
TrimSpace(s) == TrimRight(TrimLeft(s))

\* strings.Index(s, " ("): 0-based index of the first occurrence, or -1
IndexSpaceParen(s) ==
    LET hits == {i \in 1..(Len(s) - 1) : s[i] = " " /\ s[i + 1] = "("}
    IN  IF hits = {} THEN -1
        ELSE (CHOOSE i \in hits : \A j \in hits : i <= j) - 1

\* llm.go lines 137-145: what one response line names ("" for a blank line)
ParseLine(line) ==
    LET t == TrimSpace(line)
        idx == IndexSpaceParen(t)
    IN  IF t = <<>> THEN <<>>
        ELSE IF idx # -1 THEN SubSeq(t, 1, idx) ELSE t

Lines == Split(completion, "\n")

\* the orders in which ranging over a map may visit its keys
Orderings(D) ==
    {s \in [1..Cardinality(D) -> D] : \A i, j \in 1..Cardinality(D) : s[i] = s[j] => i = j}

NoRet == [paths |-> <<>>, size |-> 0, err |-> "pending"]

DocIdle ==
    /\ secFile = [n \in Range(Sections) |-> Missing]
    /\ fullFile = Missing
    /\ metaFile = Missing
    /\ gMeta = NoMeta
    /\ metaArg = NoMeta
    /\ docPc = "idle"
    /\ secIdx = 1
    /\ pending = Nothing
    /\ path = "none"
    /\ runLog = <<>>
    /\ lastOp = NoOp
    /\ runNo = 0
    /\ invocations = 0

SelIdle ==
    /\ files = <<>>
    /\ maxSize = 0
    /\ selPc = "idle"
    /\ completion = <<>>
    /\ lineIdx = 1
    /\ selectedFiles = <<>>
    /\ selectedSize = 0
    /\ selRet = NoRet
    /\ selCalls = 0

NoRepo == [User |-> <<>>, Repo |-> <<>>, Tag |-> <<>>, Path |-> <<>>]
NoHit == [kind |-> "none"]

PathIdle ==
    /\ repo = NoRepo
    /\ docsPath = <<>>
    /\ pathPc = "idle"
    /\ metaStore = {}
    /\ dirLog = {}
    /\ hitFrom = NoHit
    /\ pathRuns = 0

BinIdle ==
    /\ binInput = <<>>
    /\ binOut = Nothing

ScanIdle ==
    /\ tree = {}
    /\ queue = <<>>
    /\ closed = FALSE
    /\ walkFailed = FALSE
    /\ catalog = <<>>
    /\ received = {}
    /\ scanRet = [kind |-> "pending"]

\* --------------------------------------------------- Selector: actions
SelInit ==
    /\ files \in Catalogs
    /\ maxSize \in Budgets
    /\ selPc = "start"
    /\ completion = <<>>
    /\ lineIdx = 1
    /\ selectedFiles = <<>>
    /\ selectedSize = 0
    /\ selRet = NoRet
    /\ selCalls = 0
    /\ DocIdle
    /\ BinIdle
    /\ ScanIdle
    /\ PathIdle

\* variant of SelectAll: the copy loop stops one key short
SelectAll_DropsOne ==
    /\ selPc = "start"
    /\ getTotalSize(files) <= maxSize
    /\ \E order \in Orderings(DOMAIN files) :
          selRet' = [paths |-> SubSeq(order, 1, Len(order) - 1),
                     size |-> getTotalSize(files), err |-> "nil"]
    /\ selPc' = "done"
    /\ UNCHANGED <<files, maxSize, completion, lineIdx, selectedFiles,
                   selectedSize, selCalls>>
    /\ UNCHANGED <<docVars, binVars, scanVars, pathVars>>

\* llm.go 74-84: total under the limit, every path is returned
SelectAll ==
    /\ selPc = "start"
    /\ getTotalSize(files) <= maxSize
    /\ \E order \in Orderings(DOMAIN files) :
          selRet' = [paths |-> order, size |-> getTotalSize(files), err |-> "nil"]
    /\ selPc' = "done"
    /\ UNCHANGED <<files, maxSize, completion, lineIdx, selectedFiles,
                   selectedSize, selCalls>>
    /\ UNCHANGED <<docVars, binVars, scanVars, pathVars>>

\* llm.go 86-131: the model is asked and answers
AskModel ==
    /\ selPc = "start"
    /\ getTotalSize(files) > maxSize
    /\ selCalls' = selCalls + 1
    /\ \E resp \in Completions : completion' = resp
    /\ lineIdx' = 1
    /\ selectedFiles' = <<>>
    /\ selectedSize' = 0
    /\ selPc' = "loop"
    /\ UNCHANGED <<files, maxSize, selRet>>
    /\ UNCHANGED <<docVars, binVars, scanVars, pathVars>>

\* llm.go 127-129: the call fails
AskModelFails ==
    /\ selPc = "start"
    /\ getTotalSize(files) > maxSize
    /\ selCalls' = selCalls + 1
    /\ selRet' = [paths |-> <<>>, size |-> 0, err |-> "llm"]
    /\ selPc' = "done"
    /\ UNCHANGED <<files, maxSize, completion, lineIdx, selectedFiles, selectedSize>>
    /\ UNCHANGED <<docVars, binVars, scanVars, pathVars>>

\* variant of ProcessLineBody: the budget test forgets the running total
ProcessLineBody_NoRunningTotal(file) ==
    IF file = <<>>
    THEN UNCHANGED <<selectedFiles, selectedSize>>
    ELSE IF file \in DOMAIN files
         THEN IF files[file] > maxSize
              THEN UNCHANGED <<selectedFiles, selectedSize>>
              ELSE /\ selectedFiles' = Append(selectedFiles, file)
                   /\ selectedSize' = selectedSize + files[file]
         ELSE UNCHANGED <<selectedFiles, selectedSize>>

\* llm.go 136-158: one iteration of the loop over the response lines
ProcessLineBody(file) ==
    IF file = <<>>
    THEN UNCHANGED <<selectedFiles, selectedSize>>
    ELSE IF file \in DOMAIN files
         THEN IF selectedSize + files[file] > maxSize
              THEN UNCHANGED <<selectedFiles, selectedSize>>
              ELSE /\ selectedFiles' = Append(selectedFiles, file)
                   /\ selectedSize' = selectedSize + files[file]
         ELSE UNCHANGED <<selectedFiles, selectedSize>>

\* variant of ProcessLine: a candidate over the budget ends the scan (break)
ProcessLine_Break ==
    /\ selPc = "loop"
    /\ lineIdx <= Len(Lines)
    /\ ProcessLineBody(ParseLine(Lines[lineIdx]))
    /\ lineIdx' = LET file == ParseLine(Lines[lineIdx])
                  IN  IF /\ file \in DOMAIN files
                         /\ selectedSize + files[file] > maxSize
                      THEN Len(Lines) + 1
                      ELSE lineIdx + 1
    /\ UNCHANGED <<files, maxSize, selPc, completion, selRet, selCalls>>
    /\ UNCHANGED <<docVars, binVars, scanVars, pathVars>>

ProcessLine ==
    /\ selPc = "loop"
    /\ lineIdx <= Len(Lines)
    /\ ProcessLineBody(ParseLine(Lines[lineIdx]))
    /\ lineIdx' = lineIdx + 1
    /\ UNCHANGED <<files, maxSize, selPc, completion, selRet, selCalls>>
    /\ UNCHANGED <<docVars, binVars, scanVars, pathVars>>

\* variant of SelectReturn: the empty-selection test is missing
SelectReturn_NoEmptyCheck ==
    /\ selPc = "loop"
    /\ lineIdx > Len(Lines)
    /\ selRet' = [paths |-> selectedFiles, size |-> selectedSize, err |-> "nil"]
    /\ selPc' = "done"
    /\ UNCHANGED <<files, maxSize, completion, lineIdx, selectedFiles,
                   selectedSize, selCalls>>
    /\ UNCHANGED <<docVars, binVars, scanVars, pathVars>>

\* llm.go 160-167: after the loop
SelectReturn ==
    /\ selPc = "loop"
    /\ lineIdx > Len(Lines)
    /\ selRet' = IF Len(selectedFiles) = 0
                 THEN [paths |-> <<>>, size |-> 0, err |-> "noselect"]
                 ELSE [paths |-> selectedFiles, size |-> selectedSize, err |-> "nil"]
    /\ selPc' = "done"
    /\ UNCHANGED <<files, maxSize, completion, lineIdx, selectedFiles,
                   selectedSize, selCalls>>
    /\ UNCHANGED <<docVars, binVars, scanVars, pathVars>>


SelNext ==
    \/ SelectAll
    \/ AskModel
    \/ AskModelFails
    \/ ProcessLine
    \/ SelectReturn

SpecSelect == SelInit /\ [][SelNext]_vars

\* ------------------------------------------------- Selector: properties
\* the names the response lines carry, in response order (blank lines are <<>>)
Candidates == [i \in 1..Len(Lines) |-> ParseLine(Lines[i])]

\* reference greedy selection: accept in order while total + size <= budget,
\* skip what does not fit or is not in the catalog, never stop early
RECURSIVE GreedyRef(_, _, _)
GreedyRef(cands, accepted, total) ==
    IF cands = <<>> THEN [paths |-> accepted, size |-> total]
    ELSE LET c == Head(cands)
         IN  IF c \in DOMAIN files /\ total + files[c] <= maxSize
             THEN GreedyRef(Tail(cands), Append(accepted, c), total + files[c])
             ELSE GreedyRef(Tail(cands), accepted, total)

ModelAnswered == selPc = "done" /\ selCalls = 1 /\ selRet.err # "llm"

\* C1: whatever the catalog, the budget and the response, every returned path
\* is a key of the catalog and the returned size is at most the budget (for
\* every budget >= 0 on any return, and on every successful return).
C1_WithinBudget ==
    selPc = "done" =>
        /\ Range(selRet.paths) \subseteq DOMAIN files
        /\ (selRet.err = "nil" \/ maxSize >= 0) => selRet.size <= maxSize

\* a selection made from a response that names an unknown path, or repeats a
\* path, or carries a size annotation, was returned
C1_Witness ==
    /\ ModelAnswered
    /\ selRet.err = "nil"
    /\ \E i \in 1..Len(Lines) : TrimSpace(Lines[i]) # ParseLine(Lines[i])

\* C2: a catalog whose total size is at most the budget is returned whole:
\* every path exactly once, total = sum of sizes, no error, no model call.
C2_PassThrough ==
    (selPc = "done" /\ getTotalSize(files) <= maxSize) =>
        /\ Range(selRet.paths) = DOMAIN files
        /\ Len(selRet.paths) = Cardinality(DOMAIN files)
        /\ selRet.size = getTotalSize(files)
        /\ selRet.err = "nil"
        /\ selCalls = 0

C2_Witness ==
    /\ selPc = "done"
    /\ Cardinality(DOMAIN files) = 2
    /\ getTotalSize(files) = maxSize

\* C3: over budget, the returned paths and total are those of the greedy scan
\* of the response lines in order, skipping (not stopping at) a candidate that
\* does not fit; e.g. {a:2, c:3}, budget 4, lines [c, a] gives [c], total 3.
C3_GreedyInOrder ==
    ModelAnswered =>
        LET ref == GreedyRef(Candidates, <<>>, 0)
        IN  /\ selRet.paths = ref.paths
            /\ selRet.size = ref.size

\* the example of the claim, scaled (100 -> 2, 150 -> 3, 200 -> 4)
C3_Witness ==
    /\ ModelAnswered
    /\ files = (<<"a">> :> 2) @@ (<<"c">> :> 3)
    /\ maxSize = 4
    /\ completion = <<"c", "\n", "a">>
    /\ selRet = [paths |-> << <<"c">> >>, size |-> 3, err |-> "nil"]

\* a candidate was skipped for size and a later one was still accepted
C3_SkipThenAccept ==
    /\ ModelAnswered
    /\ \E i, j \in 1..Len(Lines) :
          /\ i < j
          /\ Candidates[i] \in DOMAIN files
          /\ Candidates[i] \notin Range(selRet.paths)
          /\ Candidates[j] \in Range(selRet.paths)
          /\ Candidates[j] # Candidates[i]

\* C4: over budget, the call ends in the "no files selected" error, with no
\* paths and size 0, exactly when no response line names a catalog file that
\* fits the budget; otherwise it succeeds, unknown paths notwithstanding.
C4_NoFilesSelected ==
    ModelAnswered =>
        LET fitting == {i \in 1..Len(Lines) :
                          /\ Candidates[i] \in DOMAIN files
                          /\ files[Candidates[i]] <= maxSize}
        IN  /\ fitting = {} => selRet = [paths |-> <<>>, size |-> 0, err |-> "noselect"]
            /\ fitting # {} => selRet.err = "nil" /\ selRet.paths # <<>>

\* the error was returned for a response naming only a file over the budget
C4_Witness ==
    /\ ModelAnswered
    /\ selRet.err = "noselect"
    /\ \E i \in 1..Len(Lines) : Candidates[i] \in DOMAIN files

\* a response with an unknown path and an accepted one succeeded
C4_UnknownTolerated ==
    /\ ModelAnswered
    /\ selRet.err = "nil"
    /\ \E i \in 1..Len(Lines) :
          Candidates[i] # <<>> /\ Candidates[i] \notin DOMAIN files


\* C12: the returned sequence holds no path twice and the returned size is the
\* sum of the catalog sizes of the distinct returned paths, whatever the
\* response, a response that repeats a catalog path included.
C12_NoDuplicates ==
    selPc = "done" =>
        /\ \A i, j \in 1..Len(selRet.paths) :
              selRet.paths[i] = selRet.paths[j] => i = j
        /\ selRet.size = SumSizes(files, Range(selRet.paths))

\* what holds of the returned size: every accepted line is counted, a path
\* as many times as it was accepted
C12_SizeCountsEveryLine ==
    selPc = "done" =>
        LET count(p) == Cardinality({i \in 1..Len(selRet.paths) : selRet.paths[i] = p})
            weighted == [p \in DOMAIN files |-> files[p] * count(p)]
        IN  selRet.size = SumSizes(weighted, DOMAIN files)

\* ------------------------------------------- Documentation: actions
Ev(kind, target) == <<kind, target>>

\* how a read of a file ends when it does not succeed
ReadFailure(content) == IF content = Missing THEN "absent" ELSE "fail"

\* the files loadFromCache reads, in order (docs.go 241)
CacheFiles == Sections \o <<FullDocFileName>>

FileContent(name) == IF name = FullDocFileName THEN fullFile ELSE secFile[name]

DocInit == DocIdle /\ SelIdle /\ BinIdle /\ ScanIdle /\ PathIdle

\* main.go 82-95, docs.go 45-60: a run creates its Generator and its metadata
StartRun ==
    /\ docPc \in {"idle", "done", "failed"}
    /\ runNo < MaxRuns
    /\ runNo' = runNo + 1
    /\ \E c \in Commits :
          metaArg' = [CommitHash |-> c, ModelUsed |-> ModelName, Deduplicated |-> FALSE]
    /\ gMeta' = NoMeta
    /\ docPc' = "probe"
    /\ secIdx' = 1
    /\ pending' = Nothing
    /\ path' = "none"
    /\ runLog' = <<>>
    /\ lastOp' = NoOp
    /\ invocations' = 0
    /\ UNCHANGED <<disk, selVars, binVars, scanVars, pathVars>>

\* variant of isCacheValid: the recorded commit must be the current one
isCacheValid_ChecksCommit(readOk) ==
    /\ readOk
    /\ Parses(metaFile)
    /\ Unmarshal(metaFile).CommitHash = metaArg.CommitHash

\* docs.go 79-96: the result of isCacheValid, given whether os.ReadFile succeeded
isCacheValid(readOk) ==
    /\ readOk
    /\ Parses(metaFile)

\* docs.go 63-65, 94: the metadata file is read and parses
CacheValid ==
    /\ docPc = "probe"
    /\ metaFile # Missing
    /\ isCacheValid(TRUE)
    /\ gMeta' = Unmarshal(metaFile)
    /\ path' = "hit"
    /\ docPc' = "load"
    /\ lastOp' = Op("read", MetadataFileName, "ok")
    /\ UNCHANGED <<disk, metaArg, secIdx, pending, runLog, runNo, invocations>>
    /\ UNCHANGED <<selVars, binVars, scanVars, pathVars>>

\* docs.go 63, 68, 81-84: there is no metadata file
CacheMissing ==
    /\ docPc = "probe"
    /\ metaFile = Missing
    /\ ~isCacheValid(FALSE)
    /\ gMeta' = metaArg
    /\ path' = "cold"
    /\ docPc' = "readsrc"
    /\ lastOp' = Op("read", MetadataFileName, "absent")
    /\ UNCHANGED <<disk, metaArg, secIdx, pending, runLog, runNo, invocations>>
    /\ UNCHANGED <<selVars, binVars, scanVars, pathVars>>

\* docs.go 63, 68, 86-89: the metadata file is read and does not parse
CacheUnparsable ==
    /\ docPc = "probe"
    /\ metaFile # Missing
    /\ ~isCacheValid(TRUE)
    /\ gMeta' = metaArg
    /\ path' = "cold"
    /\ docPc' = "readsrc"
    /\ lastOp' = Op("read", MetadataFileName, "ok")
    /\ UNCHANGED <<disk, metaArg, secIdx, pending, runLog, runNo, invocations>>
    /\ UNCHANGED <<selVars, binVars, scanVars, pathVars>>

\* docs.go 63, 68, 81-84: the metadata file exists and reading it fails; the
\* error is not returned, the cache counts as invalid (for a file that does
\* not parse the run goes the same way, as in CacheUnparsable)
CacheReadFails ==
    /\ docPc = "probe"
    /\ Parses(metaFile)
    /\ ~isCacheValid(FALSE)
    /\ gMeta' = metaArg
    /\ path' = "cold"
    /\ docPc' = "readsrc"
    /\ lastOp' = Op("read", MetadataFileName, "fail")
    /\ UNCHANGED <<disk, metaArg, secIdx, pending, runLog, runNo, invocations>>
    /\ UNCHANGED <<selVars, binVars, scanVars, pathVars>>

\* docs.go 240-261: the three sections and the full document are read back
LoadFromCache ==
    /\ docPc = "load"
    /\ \A i \in 1..Len(CacheFiles) : FileContent(CacheFiles[i]) # Missing
    /\ docPc' = "loaded"
    /\ lastOp' = Op("read", FullDocFileName, "ok")
    /\ UNCHANGED <<disk, gMeta, metaArg, secIdx, pending, path, runLog, runNo, invocations>>
    /\ UNCHANGED <<selVars, binVars, scanVars, pathVars>>

\* docs.go 245-248: one of the reads fails
LoadFromCacheFails ==
    /\ docPc = "load"
    /\ \E i \in 1..Len(CacheFiles) :
          /\ \A j \in 1..(i - 1) : FileContent(CacheFiles[j]) # Missing
          /\ lastOp' = Op("read", CacheFiles[i], ReadFailure(FileContent(CacheFiles[i])))
    /\ docPc' = "failed"
    /\ UNCHANGED <<disk, gMeta, metaArg, secIdx, pending, path, runLog, runNo, invocations>>
    /\ UNCHANGED <<selVars, binVars, scanVars, pathVars>>

\* docs.go 99-106: the selected source files are read
ReadSources ==
    /\ docPc = "readsrc"
    /\ docPc' = "gen"
    /\ secIdx' = 1
    /\ lastOp' = Op("read", "sources", "ok")
    /\ UNCHANGED <<disk, gMeta, metaArg, pending, path, runLog, runNo, invocations>>
    /\ UNCHANGED <<selVars, binVars, scanVars, pathVars>>

\* docs.go 101-104
ReadSourcesFails ==
    /\ docPc = "readsrc"
    /\ docPc' = "failed"
    /\ lastOp' = Op("read", "sources", "fail")
    /\ UNCHANGED <<disk, gMeta, metaArg, secIdx, pending, path, runLog, runNo, invocations>>
    /\ UNCHANGED <<selVars, binVars, scanVars, pathVars>>

\* docs.go 110-111, 124-139: the model writes one section
GenerateSection ==
    /\ docPc = "gen"
    /\ \E t \in Texts : pending' = t
    /\ runLog' = Append(runLog, Ev("call", Sections[secIdx]))
    /\ lastOp' = Op("call", Sections[secIdx], "ok")
    /\ docPc' = "writesec"
    /\ UNCHANGED <<disk, gMeta, metaArg, secIdx, path, runNo, invocations>>
    /\ UNCHANGED <<selVars, binVars, scanVars, pathVars>>

\* docs.go 111-114
GenerateSectionFails ==
    /\ docPc = "gen"
    /\ runLog' = Append(runLog, Ev("call", Sections[secIdx]))
    /\ lastOp' = Op("call", Sections[secIdx], "fail")
    /\ docPc' = "failed"
    /\ UNCHANGED <<disk, gMeta, metaArg, secIdx, pending, path, runNo, invocations>>
    /\ UNCHANGED <<selVars, binVars, scanVars, pathVars>>

\* docs.go 116-121: the section is written; after the third, generateFullDoc
WriteSection ==
    /\ docPc = "writesec"
    /\ secFile' = [secFile EXCEPT ![Sections[secIdx]] = pending]
    /\ runLog' = Append(runLog, Ev("write", Sections[secIdx]))
    /\ lastOp' = Op("write", Sections[secIdx], "ok")
    /\ IF secIdx = Len(Sections)
       THEN docPc' = "fulldoc" /\ secIdx' = secIdx
       ELSE docPc' = "gen" /\ secIdx' = secIdx + 1
    /\ UNCHANGED <<fullFile, metaFile, gMeta, metaArg, pending, path, runNo, invocations>>
    /\ UNCHANGED <<selVars, binVars, scanVars, pathVars>>

\* docs.go 116-118
WriteSectionFails ==
    /\ docPc = "writesec"
    /\ \E left \in WriteFailOutcomes(secFile[Sections[secIdx]]) :
          secFile' = [secFile EXCEPT ![Sections[secIdx]] = left]
    /\ runLog' = Append(runLog, Ev("write", Sections[secIdx]))
    /\ lastOp' = Op("write", Sections[secIdx], "fail")
    /\ docPc' = "failed"
    /\ UNCHANGED <<fullFile, metaFile, gMeta, metaArg, secIdx, pending, path, runNo, invocations>>
    /\ UNCHANGED <<selVars, binVars, scanVars, pathVars>>

\* docs.go 141-155: the sections are read back and full.md is written
GenerateFullDoc ==
    /\ docPc = "fulldoc"
    /\ \A i \in 1..Len(Sections) : secFile[Sections[i]] # Missing
    /\ fullFile' = ConcatSections(secFile)
    /\ runLog' = Append(runLog, Ev("write", FullDocFileName))
    /\ lastOp' = Op("write", FullDocFileName, "ok")
    /\ docPc' = "savemeta"
    /\ UNCHANGED <<secFile, metaFile, gMeta, metaArg, secIdx, pending, path, runNo, invocations>>
    /\ UNCHANGED <<selVars, binVars, scanVars, pathVars>>

\* docs.go 146-149: reading a section back fails
GenerateFullDocReadFails ==
    /\ docPc = "fulldoc"
    /\ \E i \in 1..Len(Sections) :
          /\ \A j \in 1..(i - 1) : secFile[Sections[j]] # Missing
          /\ lastOp' = Op("read", Sections[i], ReadFailure(secFile[Sections[i]]))
    /\ docPc' = "failed"
    /\ UNCHANGED <<disk, gMeta, metaArg, secIdx, pending, path, runLog, runNo, invocations>>
    /\ UNCHANGED <<selVars, binVars, scanVars, pathVars>>

\* docs.go 154: writing full.md fails
GenerateFullDocWriteFails ==
    /\ docPc = "fulldoc"
    /\ \A i \in 1..Len(Sections) : secFile[Sections[i]] # Missing
    /\ fullFile' \in WriteFailOutcomes(fullFile)
    /\ runLog' = Append(runLog, Ev("write", FullDocFileName))
    /\ lastOp' = Op("write", FullDocFileName, "fail")
    /\ docPc' = "failed"
    /\ UNCHANGED <<secFile, metaFile, gMeta, metaArg, secIdx, pending, path, runNo, invocations>>
    /\ UNCHANGED <<selVars, binVars, scanVars, pathVars>>

\* docs.go 316-327: saveMetadata, succeeding
saveMetadata ==
    /\ metaFile' = Marshal(gMeta')
    /\ runLog' = Append(runLog, Ev("write", MetadataFileName))
    /\ lastOp' = Op("write", MetadataFileName, "ok")

\* docs.go 322-324: saveMetadata, failing
saveMetadataFails ==
    /\ metaFile' \in WriteFailOutcomes(metaFile)
    /\ runLog' = Append(runLog, Ev("write", MetadataFileName))
    /\ lastOp' = Op("write", MetadataFileName, "fail")

\* docs.go 76: LoadOrGenerateDocs saves the metadata and returns
SaveMetadata ==
    /\ docPc = "savemeta"
    /\ gMeta' = gMeta
    /\ saveMetadata
    /\ docPc' = "loaded"
    /\ UNCHANGED <<secFile, fullFile, metaArg, secIdx, pending, path, runNo, invocations>>
    /\ UNCHANGED <<selVars, binVars, scanVars, pathVars>>

SaveMetadataFails ==
    /\ docPc = "savemeta"
    /\ gMeta' = gMeta
    /\ saveMetadataFails
    /\ docPc' = "failed"
    /\ UNCHANGED <<secFile, fullFile, metaArg, secIdx, pending, path, runNo, invocations>>
    /\ UNCHANGED <<selVars, binVars, scanVars, pathVars>>

\* CleanupDuplicates can be invoked: by main (main.go 100) once
\* LoadOrGenerateDocs has returned nil, or again on the same Generator
CleanupCallable ==
    \/ docPc = "loaded"
    \/ docPc = "done" /\ invocations < MaxInvocations

\* docs.go 263-268: already deduplicated, nothing is done
CleanupSkip ==
    /\ CleanupCallable
    /\ gMeta.Deduplicated
    /\ invocations' = invocations + 1
    /\ docPc' = "done"
    /\ UNCHANGED <<disk, gMeta, metaArg, secIdx, pending, path, runLog, lastOp, runNo>>
    /\ UNCHANGED <<selVars, binVars, scanVars, pathVars>>

\* variant of CleanupRead: the deduplicated flag is not consulted
CleanupRead_NoGuard ==
    /\ CleanupCallable
    /\ fullFile # Missing
    /\ invocations' = invocations + 1
    /\ pending' = fullFile
    /\ lastOp' = Op("read", FullDocFileName, "ok")
    /\ docPc' = "ddcall"
    /\ UNCHANGED <<disk, gMeta, metaArg, secIdx, path, runLog, runNo>>
    /\ UNCHANGED <<selVars, binVars, scanVars, pathVars>>

\* docs.go 265, 270-274: full.md is read
CleanupRead ==
    /\ CleanupCallable
    /\ ~gMeta.Deduplicated
    /\ fullFile # Missing
    /\ invocations' = invocations + 1
    /\ pending' = fullFile
    /\ lastOp' = Op("read", FullDocFileName, "ok")
    /\ docPc' = "ddcall"
    /\ UNCHANGED <<disk, gMeta, metaArg, secIdx, path, runLog, runNo>>
    /\ UNCHANGED <<selVars, binVars, scanVars, pathVars>>

\* docs.go 271-274
CleanupReadFails ==
    /\ CleanupCallable
    /\ ~gMeta.Deduplicated
    /\ invocations' = invocations + 1
    /\ lastOp' = Op("read", FullDocFileName, ReadFailure(fullFile))
    /\ docPc' = "failed"
    /\ UNCHANGED <<disk, gMeta, metaArg, secIdx, pending, path, runLog, runNo>>
    /\ UNCHANGED <<selVars, binVars, scanVars, pathVars>>

\* docs.go 276-300: the model merges the document
CleanupCall ==
    /\ docPc = "ddcall"
    /\ \E t \in Texts : pending' = [kind |-> "cleaned", text |-> t.text]
    /\ runLog' = Append(runLog, Ev("call", "cleanup"))
    /\ lastOp' = Op("call", "cleanup", "ok")
    /\ docPc' = "ddwrite"
    /\ UNCHANGED <<disk, gMeta, metaArg, secIdx, path, runNo, invocations>>
    /\ UNCHANGED <<selVars, binVars, scanVars, pathVars>>

\* docs.go 300-303
CleanupCallFails ==
    /\ docPc = "ddcall"
    /\ runLog' = Append(runLog, Ev("call", "cleanup"))
    /\ lastOp' = Op("call", "cleanup", "fail")
    /\ docPc' = "failed"
    /\ UNCHANGED <<disk, gMeta, metaArg, secIdx, pending, path, runNo, invocations>>
    /\ UNCHANGED <<selVars, binVars, scanVars, pathVars>>

\* docs.go 305-311: full.md is overwritten and the flag is set in memory
CleanupWrite ==
    /\ docPc = "ddwrite"
    /\ fullFile' = pending
    /\ gMeta' = [gMeta EXCEPT !.Deduplicated = TRUE]
    /\ runLog' = Append(runLog, Ev("write", FullDocFileName))
    /\ lastOp' = Op("write", FullDocFileName, "ok")
    /\ docPc' = "ddmeta"
    /\ UNCHANGED <<secFile, metaFile, metaArg, secIdx, pending, path, runNo, invocations>>
    /\ UNCHANGED <<selVars, binVars, scanVars, pathVars>>

\* docs.go 306-308
CleanupWriteFails ==
    /\ docPc = "ddwrite"
    /\ fullFile' \in WriteFailOutcomes(fullFile)
    /\ runLog' = Append(runLog, Ev("write", FullDocFileName))
    /\ lastOp' = Op("write", FullDocFileName, "fail")
    /\ docPc' = "failed"
    /\ UNCHANGED <<secFile, metaFile, gMeta, metaArg, secIdx, pending, path, runNo, invocations>>
    /\ UNCHANGED <<selVars, binVars, scanVars, pathVars>>

\* docs.go 312: the metadata is saved with deduplicated = true
CleanupSaveMetadata ==
    /\ docPc = "ddmeta"
    /\ gMeta' = gMeta
    /\ saveMetadata
    /\ docPc' = "done"
    /\ UNCHANGED <<secFile, fullFile, metaArg, secIdx, pending, path, runNo, invocations>>
    /\ UNCHANGED <<selVars, binVars, scanVars, pathVars>>

CleanupSaveMetadataFails ==
    /\ docPc = "ddmeta"
    /\ gMeta' = gMeta
    /\ saveMetadataFails
    /\ docPc' = "failed"
    /\ UNCHANGED <<secFile, fullFile, metaArg, secIdx, pending, path, runNo, invocations>>
    /\ UNCHANGED <<selVars, binVars, scanVars, pathVars>>

DocNext ==
    \/ StartRun
    \/ CacheValid
    \/ CacheMissing
    \/ CacheUnparsable
    \/ CacheReadFails
    \/ LoadFromCache
    \/ LoadFromCacheFails
    \/ ReadSources
    \/ ReadSourcesFails
    \/ GenerateSection
    \/ GenerateSectionFails
    \/ WriteSection
    \/ WriteSectionFails
    \/ GenerateFullDoc
    \/ GenerateFullDocReadFails
    \/ GenerateFullDocWriteFails
    \/ SaveMetadata
    \/ SaveMetadataFails
    \/ CleanupSkip
    \/ CleanupRead
    \/ CleanupReadFails
    \/ CleanupCall
    \/ CleanupCallFails
    \/ CleanupWrite
    \/ CleanupWriteFails
    \/ CleanupSaveMetadata
    \/ CleanupSaveMetadataFails

SpecDocs == DocInit /\ [][DocNext]_vars

\* ------------------------------------------- Documentation: properties
Calls(log) == SelectSeq(log, LAMBDA e : e[1] = "call")

\* the calls and writes of a cold LoadOrGenerateDocs, in order
ColdSequence ==
    <<Ev("call", OverviewFileName), Ev("write", OverviewFileName),
      Ev("call", GettingStartedFileName), Ev("write", GettingStartedFileName),
      Ev("call", UsageFileName), Ev("write", UsageFileName),
      Ev("write", FullDocFileName), Ev("write", MetadataFileName)>>

IsPrefix(s, t) == Len(s) <= Len(t) /\ s = SubSeq(t, 1, Len(s))

\* C5: an invocation of CleanupDuplicates that finds deduplicated = true returns
\* at once: no model call, no write, full.md and metadata.json unchanged.
C5_CleanupIdempotent ==
    [][(CleanupCallable /\ gMeta.Deduplicated /\ invocations' = invocations + 1) =>
          /\ disk' = disk
          /\ runLog' = runLog
          /\ docPc' = "done"]_vars

\* a later run loaded deduplicated = true from disk and its cleanup did nothing
C5_Witness ==
    /\ docPc = "done"
    /\ path = "hit"
    /\ invocations = 1
    /\ runLog = <<>>
    /\ gMeta.Deduplicated

\* a second invocation in the run that deduplicated did nothing more
C5_WitnessSameRun ==
    /\ docPc = "done"
    /\ invocations = 2
    /\ Len(Calls(runLog)) = 4

\* C6: when the metadata file is read and parses, LoadOrGenerateDocs goes the
\* cache-hit way whatever the file records: Generator.Meta becomes the metadata
\* of the disk, and until it returns nothing is generated and nothing written.
C6_CacheHit ==
    [][/\ (docPc = "probe" /\ Parses(metaFile) /\ lastOp'.ok # "fail") =>
              /\ path' = "hit"
              /\ docPc' = "load"
              /\ gMeta' = [CommitHash |-> metaFile.commit_hash,
                           ModelUsed |-> metaFile.model_used,
                           Deduplicated |-> metaFile.deduplicated]
              /\ disk' = disk
              /\ runLog' = <<>>
       /\ (docPc = "load") =>
              /\ docPc' \in {"loaded", "failed"}
              /\ gMeta' = gMeta
              /\ disk' = disk
              /\ runLog' = <<>>]_vars

\* a hit was served for metadata of another commit and with the flag set
C6_Witness ==
    /\ path = "hit"
    /\ docPc = "loaded"
    /\ gMeta.CommitHash # metaArg.CommitHash
    /\ gMeta.Deduplicated
    /\ ~metaArg.Deduplicated

\* C7: on the cold path the calls and writes happen in the order overview,
\* getting-started, usage (each section written before the next call), then
\* full.md, then metadata.json; when LoadOrGenerateDocs returns, all eight have
\* happened, full.md is the three sections in that order and the metadata
\* records deduplicated = false.  The cache-hit way is taken only for a
\* metadata file that parses.
C7_ColdPath ==
    /\ docPc = "load" => Parses(metaFile)
    /\ path = "cold" =>
        /\ \/ IsPrefix(runLog, ColdSequence)
           \/ IsPrefix(ColdSequence, runLog) /\ invocations > 0
        /\ docPc = "loaded" =>
              /\ runLog = ColdSequence
              /\ Len(Calls(runLog)) = 3
              /\ fullFile = [kind |-> "concat",
                             parts |-> <<secFile[OverviewFileName],
                                         secFile[GettingStartedFileName],
                                         secFile[UsageFileName]>>]
              /\ \A n \in Range(Sections) : secFile[n] \in Texts
              /\ metaFile = [commit_hash |-> metaArg.CommitHash,
                             model_used |-> ModelName,
                             deduplicated |-> FALSE]

\* a cold generation completed with sections that differ from one another
C7_Witness ==
    /\ path = "cold"
    /\ docPc = "loaded"
    /\ secFile[OverviewFileName] # secFile[UsageFileName]
    /\ secFile[OverviewFileName] # secFile[GettingStartedFileName]

\* C8: every failed file or model operation of the generate and dedupe stages
\* aborts the run, and a run that fails during cold generation leaves the
\* metadata file such that the next run is cold again.
C8_FailureAborts ==
    /\ lastOp.ok = "fail" => docPc = "failed"
    /\ (docPc = "failed" /\ path = "cold" /\ invocations = 0) => ~Parses(metaFile)

\* what holds of failures: every failed operation other than the read of the
\* metadata file in isCacheValid aborts the run, and nothing follows it
C8_AbortsExceptCacheCheck ==
    /\ (lastOp.ok \in {"fail", "absent"} /\ lastOp.target # MetadataFileName) =>
          docPc = "failed"
    /\ (lastOp.ok = "fail" /\ lastOp.op = "write") => docPc = "failed"

\* between runs: no run has started, or the last one has ended
Quiescent == docPc \in {"idle", "done", "failed"}

\* C13: whenever a run has ended, on success or at any failure, and the
\* metadata on disk says deduplicated = false, full.md is not an already
\* deduplicated text; and the text handed to the deduplication call is never
\* one that was deduplicated before.
C13_FlagMatchesFullDoc ==
    /\ (Quiescent /\ Parses(metaFile) /\ ~metaFile.deduplicated) =>
          fullFile.kind # "cleaned"
    /\ docPc = "ddcall" => pending.kind # "cleaned"

\* ------------------------------------------- Binary Classifier
SampleSize == 512

\* git.go 30-40: ELF, MZ, ZIP, GZIP, PNG, JPEG, GIF, BMP, PDF
binarySignatures ==
    {<<127, 69, 76, 70>>, <<77, 90>>, <<80, 75, 3, 4>>, <<31, 139>>,
     <<137, 80, 78, 71>>, <<255, 216, 255>>, <<71, 73, 70, 56>>, <<66, 77>>,
     <<37, 80, 68, 70>>}

\* the byte values files are made of: NUL, 'B', 'M', 'Z', 0x80
ByteValues == {0, 66, 77, 90, 128}

RECURSIVE BytesUpTo(_)
BytesUpTo(n) ==
    IF n = 0 THEN {<<>>}
    ELSE LET S == BytesUpTo(n - 1)
         IN  S \cup {Append(b, v) : b \in {t \in S : Len(t) = n - 1}, v \in ByteValues}

\* what isBinaryFile may be given: a file with its bytes, a file that cannot
\* be opened, a file whose read fails
BinInputs ==
    {[kind |-> "file", bytes |-> b] : b \in BytesUpTo(MaxSample)}
        \cup {[kind |-> "noopen", bytes |-> <<>>], [kind |-> "noread", bytes |-> <<>>]}

\* bytes.HasPrefix
HasPrefix(buf, sig) == Len(sig) <= Len(buf) /\ SubSeq(buf, 1, Len(sig)) = sig

RECURSIVE Pow(_, _)
Pow(b, e) == IF e = 0 THEN 1 ELSE b * Pow(b, e - 1)

RECURSIVE ProdPow(_, _)
ProdPow(data, vals) ==
    IF vals = {} THEN 1
    ELSE LET v == CHOOSE x \in vals : TRUE
             count == Cardinality({i \in 1..Len(data) : data[i] = v})
         IN  Pow(count, count) * ProdPow(data, vals \ {v})

\* git.go 95-114: the entropy H of data, held exactly as the fraction
\* num/den = 2^(n*H) = n^n / prod(count^count); the empty sample gives 0
calculateEntropy(data) ==
    IF Len(data) = 0 THEN [num |-> 1, den |-> 1, n |-> 1, zero |-> TRUE]
    ELSE [num |-> Pow(Len(data), Len(data)),
          den |-> ProdPow(data, Range(data)),
          n |-> Len(data),
          zero |-> Pow(Len(data), Len(data)) = ProdPow(data, Range(data))]

\* is q + (a positive fraction if frac) greater than base^k
RECURSIVE ExceedsPow(_, _, _, _)
ExceedsPow(q, frac, base, k) ==
    IF k = 0 THEN q > 1 \/ (q = 1 /\ frac)
    ELSE ExceedsPow(q \div base, frac \/ (q % base # 0), base, k - 1)

\* entropy > 7.0, i.e. num/den > (2^7)^n
EntropyAbove7(e) == ExceedsPow(e.num \div e.den, e.num % e.den # 0, 128, e.n)

\* float64 division: 0/0 is NaN, x/0 is +Inf, no trap
FloatDiv(a, b) ==
    IF b = 0
    THEN IF a = 0 THEN [kind |-> "NaN", num |-> 0, den |-> 0]
                  ELSE [kind |-> "Inf", num |-> a, den |-> 0]
    ELSE [kind |-> "finite", num |-> a, den |-> b]

\* x < 0.7 for a float64 x: false for NaN and +Inf
LessThan07(x) == x.kind = "finite" /\ 10 * x.num < 7 * x.den

\* git.go 78-84
textChars(buf) ==
    Cardinality({i \in 1..Len(buf) :
                    \/ buf[i] >= 32 /\ buf[i] <= 126
                    \/ buf[i] >= 9 /\ buf[i] <= 13})

BinResult(b, e, ent, dz) ==
    [kind |-> "ret", binary |-> b, err |-> e, entropyZero |-> ent, divByZeroLen |-> dz]

\* git.go 43-92: the result of isBinaryFile, whether the entropy step yielded
\* 0 and whether the ratio step divided by a zero sample length
isBinaryFile(f) ==
    IF f.kind = "noopen" THEN BinResult(FALSE, "open", FALSE, FALSE)
    ELSE IF f.kind = "noread" THEN BinResult(FALSE, "read", FALSE, FALSE)
    ELSE LET n == IF Len(f.bytes) < SampleSize THEN Len(f.bytes) ELSE SampleSize
             buf == SubSeq(f.bytes, 1, n)
             entropy == calculateEntropy(buf)
             ratio == FloatDiv(textChars(buf), Len(buf))
         IN  IF \E sig \in binarySignatures : HasPrefix(buf, sig)
             THEN BinResult(TRUE, "nil", FALSE, FALSE)
             ELSE IF \E i \in 1..Len(buf) : buf[i] = 0
             THEN BinResult(TRUE, "nil", FALSE, FALSE)
             ELSE IF EntropyAbove7(entropy)
             THEN BinResult(TRUE, "nil", entropy.zero, FALSE)
             ELSE BinResult(LessThan07(ratio), "nil", entropy.zero, Len(buf) = 0)

BinInit ==
    /\ binInput \in BinInputs
    /\ binOut = Nothing
    /\ SelIdle
    /\ DocIdle
    /\ ScanIdle
    /\ PathIdle

\* one call of isBinaryFile
Classify ==
    /\ binOut = Nothing
    /\ binOut' = isBinaryFile(binInput)
    /\ UNCHANGED <<binInput, selVars, docVars, scanVars, pathVars>>

BinNext == Classify

SpecBinary == BinInit /\ [][BinNext]_vars

\* C9: for an empty sample the classifier returns text with no error, the
\* entropy step yields 0 and the ratio step does not divide by the zero
\* sample length.
C9_EmptyIsText ==
    (binOut # Nothing /\ binInput = [kind |-> "file", bytes |-> <<>>]) =>
        /\ binOut.binary = FALSE
        /\ binOut.err = "nil"
        /\ binOut.entropyZero
        /\ ~binOut.divByZeroLen

\* what holds for the empty sample: text, no error, entropy 0
C9_EmptyResult ==
    (binOut # Nothing /\ binInput = [kind |-> "file", bytes |-> <<>>]) =>
        /\ binOut.binary = FALSE
        /\ binOut.err = "nil"
        /\ binOut.entropyZero

\* ------------------------------------------- Repository Scanner
Locations == {"x", "y", "z"}

TextFile == [kind |-> "file", bytes |-> <<66>>]
BinaryFile == [kind |-> "file", bytes |-> <<0>>]
EmptyFile == [kind |-> "file", bytes |-> <<>>]
Unopenable == [kind |-> "noopen", bytes |-> <<>>]

\* what the walker may find at a location: os.Stat's outcome and the file
Profiles ==
    {[stat |-> "file", content |-> TextFile],
     [stat |-> "file", content |-> EmptyFile],
     [stat |-> "file", content |-> BinaryFile],
     [stat |-> "file", content |-> Unopenable],
     [stat |-> "dir", content |-> EmptyFile],
     [stat |-> "err", content |-> TextFile]}

Entry(l, p) == [loc |-> l, stat |-> p.stat, content |-> p.content]

Trees == {{Entry(l, f[l]) : l \in Locations} : f \in [Locations -> Profiles]}

\* info.Size() of a regular file
SizeOf(e) == Len(e.content.bytes)

\* git.go 188-219: does the loop body put the entry in the map
Keeps(e) ==
    /\ e.stat = "file"
    /\ isBinaryFile(e.content).err = "nil"
    /\ ~isBinaryFile(e.content).binary

ScanInit ==
    /\ tree \in Trees
    /\ queue = <<>>
    /\ closed = FALSE
    /\ walkFailed = FALSE
    /\ catalog = <<>>
    /\ received = {}
    /\ scanRet = [kind |-> "pending"]
    /\ SelIdle
    /\ DocIdle
    /\ BinIdle
    /\ PathIdle

\* git.go 184: the walker sends a file on fileListQueue
WalkSend ==
    /\ ~closed
    /\ Len(queue) < QueueCap
    /\ \E e \in tree :
          /\ queue' = Append(queue, e)
          /\ tree' = tree \ {e}
    /\ UNCHANGED <<closed, walkFailed, catalog, received, scanRet>>
    /\ UNCHANGED <<selVars, docVars, binVars, pathVars>>

\* git.go 177-181: the walker meets an error on one entry, the handler
\* prints a warning and returns true, the walk goes on
WalkWarning ==
    /\ ~closed
    /\ \E e \in tree : tree' = tree \ {e}
    /\ UNCHANGED <<queue, closed, walkFailed, catalog, received, scanRet>>
    /\ UNCHANGED <<selVars, docVars, binVars, pathVars>>

\* git.go 177-184: the tree cannot be walked; the handler prints a warning,
\* Start ends, its error is not looked at, the queue is closed
WalkFails ==
    /\ ~closed
    /\ walkFailed' = TRUE
    /\ tree' = {}
    /\ closed' = TRUE
    /\ UNCHANGED <<queue, catalog, received, scanRet>>
    /\ UNCHANGED <<selVars, docVars, binVars, pathVars>>

\* git.go 184: the walk is over, the queue is closed
WalkDone ==
    /\ ~closed
    /\ tree = {}
    /\ closed' = TRUE
    /\ UNCHANGED <<tree, queue, walkFailed, catalog, received, scanRet>>
    /\ UNCHANGED <<selVars, docVars, binVars, pathVars>>

\* git.go 187-220: one iteration of the receiving loop
Receive ==
    /\ scanRet.kind = "pending"
    /\ queue # <<>>
    /\ LET e == Head(queue)
       IN  /\ received' = received \cup {e}
           /\ catalog' = IF Keeps(e) THEN (e.loc :> SizeOf(e)) @@ catalog ELSE catalog
    /\ queue' = Tail(queue)
    /\ UNCHANGED <<tree, closed, walkFailed, scanRet>>
    /\ UNCHANGED <<selVars, docVars, binVars, pathVars>>

\* git.go 187, 222: the queue is closed and drained, GetFiles returns
ScanReturn ==
    /\ scanRet.kind = "pending"
    /\ queue = <<>>
    /\ closed
    /\ scanRet' = [kind |-> "ret", files |-> catalog, err |-> "nil"]
    /\ UNCHANGED <<tree, queue, closed, walkFailed, catalog, received>>
    /\ UNCHANGED <<selVars, docVars, binVars, pathVars>>

ScanNext ==
    \/ WalkSend
    \/ WalkWarning
    \/ WalkFails
    \/ WalkDone
    \/ Receive
    \/ ScanReturn

SpecScan == ScanInit /\ [][ScanNext]_vars

\* the files among the received entries that stat and classify as text
GoodReceived ==
    {e \in received :
        /\ e.stat = "file"
        /\ e.content.kind = "file"
        /\ e.content \in {TextFile, EmptyFile}}

\* C10: when GetFiles returns, an error on one file has left out that file
\* only (the map holds every other text file received), and a failure to walk
\* the tree has made GetFiles return an error.
C10_ScanErrors ==
    scanRet.kind = "ret" =>
        /\ DOMAIN scanRet.files = {e.loc : e \in GoodReceived}
        /\ walkFailed => scanRet.err # "nil"

\* what holds of per-file errors: they leave out that file only
C10_PerFileErrorsSkipped ==
    scanRet.kind = "ret" =>
        /\ DOMAIN scanRet.files = {e.loc : e \in GoodReceived}
        /\ \A e \in GoodReceived : scanRet.files[e.loc] = Len(e.content.bytes)

\* a file after a failing one was still catalogued
C10_SkipWitness ==
    /\ scanRet.kind = "ret"
    /\ \E e \in received : e.stat = "err" \/ e.content = Unopenable
    /\ scanRet.files # <<>>

\* ------------------------------------------- Directories of a run
\* A path is a sequence of components; a component is a string.

ArgChars == {"u", "r", "/", "@"}

RECURSIVE ArgsUpTo(_)
ArgsUpTo(n) ==
    IF n = 0 THEN {<<>>}
    ELSE LET S == ArgsUpTo(n - 1)
         IN  S \cup {Append(s, ch) : s \in {t \in S : Len(t) = n - 1}, ch \in ArgChars}

\* what os.Args[1] may be
Args == ArgsUpTo(MaxArg)

ParseRepoPath(arg) ==
    LET parts == Split(arg, "@")
        repoPath == parts[1]
        tag == IF Len(parts) > 1 THEN parts[2] ELSE <<>>
        repoParts == Split(repoPath, "/")
    IN  IF Len(repoParts) # 2
        THEN [err |-> TRUE, repo |-> NoRepo]
        ELSE [err |-> FALSE,
              repo |-> [User |-> repoParts[1], Repo |-> repoParts[2],
                        Tag |-> tag, Path |-> <<>>]]

HomeDir == << <<"home">> >>
DotRepocontext == <<".repocontext">>
DocsName == <<"docs">>

\* filepath.Join: empty elements are ignored
Join(base, elems) == base \o SelectSeq(elems, LAMBDA e : e # <<>>)

\* filepath.Dir: the path without its last component
Dir(p) == IF p = <<>> THEN <<>> ELSE SubSeq(p, 1, Len(p) - 1)

\* r.Path as Clone sets it
ClonePath(r) == Join(HomeDir, <<DotRepocontext, r.User, r.Repo>>)

\* docsPath as docs.New derives it from repoPath
New(repoPath) == Join(Dir(repoPath), <<DocsName>>)

PathInit ==
    /\ PathIdle
    /\ SelIdle
    /\ DocIdle
    /\ BinIdle
    /\ ScanIdle

\* main: the argument parses
PathParse ==
    /\ pathPc = "idle"
    /\ pathRuns < MaxPathRuns
    /\ \E arg \in Args :
          /\ ~ParseRepoPath(arg).err
          /\ repo' = ParseRepoPath(arg).repo
    /\ pathPc' = "parsed"
    /\ docsPath' = <<>>
    /\ hitFrom' = NoHit
    /\ pathRuns' = pathRuns + 1
    /\ UNCHANGED <<metaStore, dirLog>>
    /\ UNCHANGED <<selVars, docVars, binVars, scanVars>>

\* main: ParseRepoPath returns an error, log.Fatal
PathParseFails ==
    /\ pathPc = "idle"
    /\ pathRuns < MaxPathRuns
    /\ \E arg \in Args : ParseRepoPath(arg).err
    /\ repo' = NoRepo
    /\ docsPath' = <<>>
    /\ hitFrom' = NoHit
    /\ pathRuns' = pathRuns + 1
    /\ UNCHANGED <<pathPc, metaStore, dirLog>>
    /\ UNCHANGED <<selVars, docVars, binVars, scanVars>>

\* Clone succeeds (an existing clone is reused or a new one is made); a
\* repository with an empty user or name is not one that can be cloned
PathClone ==
    /\ pathPc = "parsed"
    /\ repo.User # <<>>
    /\ repo.Repo # <<>>
    /\ repo' = [repo EXCEPT !.Path = ClonePath(repo)]
    /\ pathPc' = "cloned"
    /\ UNCHANGED <<docsPath, metaStore, dirLog, hitFrom, pathRuns>>
    /\ UNCHANGED <<selVars, docVars, binVars, scanVars>>

\* Clone returns an error, log.Fatal
PathCloneFails ==
    /\ pathPc = "parsed"
    /\ pathPc' = "idle"
    /\ UNCHANGED <<repo, docsPath, metaStore, dirLog, hitFrom, pathRuns>>
    /\ UNCHANGED <<selVars, docVars, binVars, scanVars>>

\* docs.New(repo.Path, ...) succeeds
PathNew ==
    /\ pathPc = "cloned"
    /\ docsPath' = New(repo.Path)
    /\ dirLog' = dirLog \cup
          {[User |-> repo.User, Repo |-> repo.Repo, dir |-> New(repo.Path)]}
    /\ pathPc' = "ready"
    /\ UNCHANGED <<repo, metaStore, hitFrom, pathRuns>>
    /\ UNCHANGED <<selVars, docVars, binVars, scanVars>>

\* a step of main after Clone fails (commit hash, scan, selection, MkdirAll)
PathNewFails ==
    /\ pathPc = "cloned"
    /\ pathPc' = "idle"
    /\ UNCHANGED <<repo, docsPath, metaStore, dirLog, hitFrom, pathRuns>>
    /\ UNCHANGED <<selVars, docVars, binVars, scanVars>>

\* LoadOrGenerateDocs: isCacheValid finds a metadata file in DocsPath
PathCacheHit ==
    /\ pathPc = "ready"
    /\ \E m \in metaStore :
          /\ m.dir = docsPath
          /\ hitFrom' = [kind |-> "hit", User |-> m.User, Repo |-> m.Repo]
    /\ pathPc' = "idle"
    /\ UNCHANGED <<repo, docsPath, metaStore, dirLog, pathRuns>>
    /\ UNCHANGED <<selVars, docVars, binVars, scanVars>>

\* LoadOrGenerateDocs: no metadata file in DocsPath, generateDocs writes one
PathColdGenerate ==
    /\ pathPc = "ready"
    /\ \A m \in metaStore : m.dir # docsPath
    /\ metaStore' = metaStore \cup
          {[dir |-> docsPath, User |-> repo.User, Repo |-> repo.Repo]}
    /\ pathPc' = "idle"
    /\ UNCHANGED <<repo, docsPath, dirLog, hitFrom, pathRuns>>
    /\ UNCHANGED <<selVars, docVars, binVars, scanVars>>

\* LoadOrGenerateDocs: generateDocs fails before the metadata is written
PathColdFails ==
    /\ pathPc = "ready"
    /\ \A m \in metaStore : m.dir # docsPath
    /\ pathPc' = "idle"
    /\ UNCHANGED <<repo, docsPath, metaStore, dirLog, hitFrom, pathRuns>>
    /\ UNCHANGED <<selVars, docVars, binVars, scanVars>>

PathNext ==
    \/ PathParse
    \/ PathParseFails
    \/ PathClone
    \/ PathCloneFails
    \/ PathNew
    \/ PathNewFails
    \/ PathCacheHit
    \/ PathColdGenerate
    \/ PathColdFails

SpecPaths == PathInit /\ [][PathNext]_vars

\* C11: two runs on different repositories are given different docs
\* directories, and a run never takes as a cache hit a metadata file that a
\* run for another repository wrote.
C11_DocsDirPerRepo ==
    /\ \A a, b \in dirLog :
          (a.User # b.User \/ a.Repo # b.Repo) => a.dir # b.dir
    /\ hitFrom.kind = "hit" =>
          (hitFrom.User = repo.User /\ hitFrom.Repo = repo.Repo)

\* what holds: the docs directory is <home>/.repocontext/<user>/docs, the
\* same for every repository of a user and different between users
C11_DocsDirPerUser ==
    /\ \A a \in dirLog :
          a.dir = Join(HomeDir, <<DotRepocontext, a.User, DocsName>>)
    /\ \A a, b \in dirLog : a.dir = b.dir <=> a.User = b.User
    /\ hitFrom.kind = "hit" => hitFrom.User = repo.User

\* a run for one repository of a user hits the cache another repository of
\* the same user filled
C11_CrossRepoHit ==
    /\ hitFrom.kind = "hit"
    /\ hitFrom.User = repo.User
    /\ hitFrom.Repo # repo.Repo

====
